---- MODULE Spec2Model ----
(***************************************************************************)
(* Model of MpMe (src/mpme.py): the batch fetch of SongList.fetch_all,     *)
(* the bounded retry of Song.fetch, the tagging step and the size check.   *)
(*                                                                         *)
(* Units.  File sizes are bytes (os.stat().st_size).  Durations are whole  *)
(* milliseconds; average_download_seconds and eta_seconds are kept in      *)
(* hundredths of a second, the precision round(.., 2) leaves.              *)
(* A song is named by its 1-based position in self.songs.                  *)
(***************************************************************************)
EXTENDS Integers, Sequences, FiniteSets, TLC

\* ---- bounds of the model ----
MaxSongs == 3
\* repeated fetch_all invocations on one SongList (SpecRerun)
MaxRerunSongs == 2
MaxRuns == 2
\* longest line handed to Song.from_string (SpecSong)
MaxLineLen == 5
\* enumerations of the volumes one find_disks call may make
MaxPolls == 3
\* songs and volume listings in a whole program run (SpecMain)
MaxMainSongs == 1
MaxMainPolls == 2

\* ---- program constants ----
RETRY_ATTEMPTS == 3
BIG_FILE_MB == 30

\* Song.size_mb divides st_size by this (mpme.py:129)
SizeMbDivisor == 1204 * 1204
\* bytes in one megabyte
BytesPerMB == 1024 * 1024

\* st_size values a finished download may leave behind
FileSizes == { 5 * BytesPerMB, 31 * BytesPerMB, 50 * BytesPerMB }
\* what os.stat raises on; Song.size_mb then answers -1
NoFile == 0 - 1

\* observed end_time - start_time, in milliseconds
Durations == { 4, 1504 }

\* the ways one ydl.download call can end
DownloadOutcomes == { "ok", "nonzero", "raise" }

VARIABLES
  TAGGING_ENABLED,          \* module flag, mpme.py:33
  songs,                    \* self.songs
  file_size,                \* the download directory: song -> st_size or NoFile
  pc,                       \* position inside fetch_all
  runs,                     \* fetch_all invocations so far
  start, total, i, real_index, song,
  eta_display,
  attempt,                  \* loop variable of Song.fetch
  fetch_result,             \* what song.fetch() returned
  fetch_songs_failed, fetch_songs_big,
  total_download_seconds, average_download_seconds, eta_seconds,
  summary,                  \* what show_failed / show_big printed
  \* ---- history of the current invocation ----
  attempt_log,              \* outcomes of the download calls for the current song
  download_calls,           \* ydl.download calls in this invocation
  results,                  \* song -> "none" | "success" | "failure"
  fetch_order,              \* songs in the order song.fetch() was called
  tag_calls,                \* song -> number of song.tag() calls
  tag_raised,               \* songs whose song.tag() raised
  size_checked,             \* songs that reached the size check
  durations,                \* duration_seconds of each finished item
  headers                   \* the [real_index/total] headers printed

config == << TAGGING_ENABLED, songs >>
loopvars == << start, total, i, real_index, song, eta_display >>
stats == << total_download_seconds, average_download_seconds, eta_seconds >>
buckets == << fetch_songs_failed, fetch_songs_big >>

VARIABLES
  \* ---- Song.from_string / Song(...) ----
  line,                     \* the string handed to Song.from_string
  parsed,                   \* the Song built, or the exception raised
  song_origin               \* "none" | "from_string" | "direct"

songvars == << line, parsed, song_origin >>

VARIABLES
  \* ---- LocalExporter ----
  backup_exists,            \* os.path.exists(BACKUP_DIR)
  backup_dir,               \* BACKUP_DIR: file name -> st_size or NoFile
  local_exports,            \* LocalExporter.export() calls that returned
  before_export             \* both directories as the last export found them

backupvars == << backup_exists, backup_dir, local_exports, before_export >>

VARIABLES
  \* ---- ExternalDiskExporter ----
  PLATFORM,                 \* host family platform.platform() names
  dpc,                      \* position inside export / find_disks
  disk_error,               \* the exception that ended export, if any
  poll_log,                 \* the directory listings find_disks got, in order
  sleeps,                   \* time.sleep(1) calls
  available_disks,          \* the candidate list of the current iteration
  prompts,                  \* "Which disk?" prompts shown
  choice,                   \* the last answer to "Which disk?"
  disk_name,                \* what find_disks returned
  mounts,                   \* mount commands issued
  copy_dest                 \* destination handed to shutil.copytree

diskvars == << PLATFORM, dpc, disk_error, poll_log, sleeps, available_disks,
               prompts, choice, disk_name, mounts, copy_dest >>

VARIABLES
  \* ---- SongList.populate ----
  pop_pc,                   \* "off" | "prompt" | "loaded" | "raised"
  pop_choice,               \* the last answer to "Please choose an option"
  pop_source                \* the list source that was called

popvars == << pop_pc, pop_choice, pop_source >>

VARIABLES
  \* ---- main / offer_exports ----
  OFFER_EXPORT_FEATURES,    \* module flag, mpme.py:34
  main_pc,                  \* "fetch" | "offer" | "exporting" | "finished" | "crashed"
  exporter,                 \* index into EXPORTERS of the loop of offer_exports
  offered,                  \* names of the exporters offered, in order
  exporting,                \* exporters whose export() is running
  export_raised             \* exporters whose export() raised

mainvars == << OFFER_EXPORT_FEATURES, main_pc, exporter, offered, exporting,
               export_raised >>

\* everything outside fetch_all
othervars == << songvars, backupvars, diskvars, popvars, mainvars >>

vars == << TAGGING_ENABLED, songs, file_size, pc, runs, start, total, i,
           real_index, song, eta_display, attempt, fetch_result,
           fetch_songs_failed, fetch_songs_big, total_download_seconds,
           average_download_seconds, eta_seconds, summary, attempt_log,
           download_calls, results, fetch_order, tag_calls, tag_raised,
           size_checked, durations, headers, othervars >>

\* ---- helpers ----
SongIds == 1..MaxSongs

RECURSIVE Sum(_)
Sum(s) == IF s = << >> THEN 0 ELSE Head(s) + Sum(Tail(s))

Range(s) == { s[k] : k \in 1..Len(s) }

Count(s, x) == Cardinality({ k \in 1..Len(s) : s[k] = x })

\* Python round(): nearest, ties to even.  num/den with den > 0, num >= 0.
RoundHalfEven(num, den) ==
  LET q == num \div den
      r == num % den
  IN  IF 2 * r < den THEN q
      ELSE IF 2 * r > den THEN q + 1
      ELSE IF q % 2 = 0 THEN q ELSE q + 1

\* the slice forgotten: iterate self.songs from the beginning
Slice_NoOffset(s, from) == s

\* self.songs[start:]
Slice(s, from) == SubSeq(s, from + 1, Len(s))

\* Song.size_mb > BIG_FILE_MB, with size_mb = st_size / (1204 * 1204), or -1
IsBig(sz) ==
  IF sz = NoFile THEN (0 - 1) > BIG_FILE_MB
  ELSE sz > BIG_FILE_MB * SizeMbDivisor

\* the result of song.fetch() left out of the condition
ShouldTag_IgnoreFetch(fetched) == TAGGING_ENABLED

\* the condition of the if at mpme.py:258
ShouldTag(fetched) == fetched /\ TAGGING_ENABLED

\* real_index taken for the number of items completed
CompletedCount_RealIndex(idx, st) == idx + st + 1

\* the denominator of the moving average, mpme.py:269
CompletedCount(idx, st) == idx + 1

\* the "eta N/A" case left out
EtaDisplay_AlwaysNumeric(eta) == << "eta", eta \div 100 >>

\* "eta N/A" unless eta_seconds is truthy; else the timedelta, whole seconds
EtaDisplay(eta) == IF eta # 0 THEN << "eta", eta \div 100 >> ELSE << "eta N/A" >>

NoSummary == [failed |-> << >>, big |-> << >>]

\* no Song.from_string call under way
NoSong == [kind |-> "none", has_yid |-> FALSE, yid |-> << >>,
           name |-> << >>, artist |-> << >>]

SongIdle ==
  /\ line = << >>
  /\ parsed = NoSong
  /\ song_origin = "none"

\* file names of BACKUP_DIR: those of the songs, and 0 for a file of no song
BackupNames == 0..MaxSongs

NoExportYet == [backup |-> [n \in BackupNames |-> NoFile],
                download |-> [n \in SongIds |-> NoFile]]

\* no backup directory yet, nothing exported
BackupIdle ==
  /\ backup_exists = FALSE
  /\ backup_dir = [n \in BackupNames |-> NoFile]
  /\ local_exports = 0
  /\ before_export = NoExportYet

\* an operator's answer: not an integer literal, or the integer n
NoAnswer == [ok |-> FALSE, n |-> 0]
NoPath == << >>

\* ExternalDiskExporter().export() not called
DiskIdle ==
  /\ dpc = "off"
  /\ disk_error = "none"
  /\ poll_log = << >>
  /\ sleeps = 0
  /\ available_disks = << >>
  /\ prompts = 0
  /\ choice = NoAnswer
  /\ disk_name = ""
  /\ mounts = 0
  /\ copy_dest = NoPath

\* populate() not under way
PopulateIdle ==
  /\ pop_pc = "off"
  /\ pop_choice = NoAnswer
  /\ pop_source = ""

\* offer_exports not reached
MainIdle ==
  /\ main_pc = "fetch"
  /\ exporter = 0
  /\ offered = << >>
  /\ exporting = {}
  /\ export_raised = {}

\* the fetch_all state before its first call
FetchRest ==
  /\ pc = "idle"
  /\ runs = 0
  /\ start = 0 /\ total = 0 /\ i = 0 /\ real_index = 0 /\ song = 0
  /\ eta_display = << "eta N/A" >>
  /\ attempt = 0
  /\ fetch_result = FALSE
  /\ fetch_songs_failed = << >>
  /\ fetch_songs_big = << >>
  /\ total_download_seconds = 0
  /\ average_download_seconds = 0
  /\ eta_seconds = 0
  /\ summary = NoSummary
  /\ attempt_log = << >>
  /\ download_calls = 0
  /\ results = [s \in SongIds |-> "none"]
  /\ fetch_order = << >>
  /\ tag_calls = [s \in SongIds |-> 0]
  /\ tag_raised = {}
  /\ size_checked = {}
  /\ durations = << >>
  /\ headers = << >>

\* ---- initial state: after SongList() and populate() ----
Init ==
  /\ TAGGING_ENABLED \in BOOLEAN
  /\ \E n \in 0..MaxSongs : songs = [k \in 1..n |-> k]
  /\ file_size = [s \in SongIds |-> NoFile]
  /\ FetchRest
  /\ SongIdle
  /\ BackupIdle
  /\ PLATFORM = "Linux"
  /\ DiskIdle
  /\ PopulateIdle
  /\ OFFER_EXPORT_FEATURES = FALSE
  /\ MainIdle

\* ---- fetch_all, lines 241-246: entry ----
FetchAllEntry(s) ==
  /\ runs' = runs + 1
  /\ fetch_songs_failed' = << >>
  /\ start' = s
  /\ total' = Len(songs)
  /\ average_download_seconds' = 0
  /\ total_download_seconds' = 0
  /\ eta_seconds' = 0
  /\ i' = 0
  /\ pc' = "loop"
  /\ summary' = NoSummary
  /\ attempt_log' = << >>
  /\ download_calls' = 0
  /\ results' = [x \in SongIds |-> "none"]
  /\ fetch_order' = << >>
  /\ tag_calls' = [x \in SongIds |-> 0]
  /\ tag_raised' = {}
  /\ size_checked' = {}
  /\ durations' = << >>
  /\ headers' = << >>
  /\ UNCHANGED << config, file_size, real_index, song, eta_display, attempt,
                  fetch_result, fetch_songs_big >>
  /\ UNCHANGED othervars

\* ---- lines 247-256 and 153-154: next item, header, song.fetch() entered ----
LoopHead ==
  /\ pc = "loop"
  /\ i < Len(Slice(songs, start))
  /\ song' = Slice(songs, start)[i + 1]
  /\ real_index' = i + start + 1
  /\ eta_display' = EtaDisplay(eta_seconds)
  /\ headers' = Append(headers, [real_index |-> real_index', total |-> total,
                                 eta |-> eta_display', song |-> song'])
  /\ attempt' = 0
  /\ attempt_log' = << >>
  /\ fetch_order' = Append(fetch_order, song')
  /\ pc' = "fetch"
  /\ UNCHANGED << config, file_size, runs, start, total, i, fetch_result,
                  buckets, stats, summary, download_calls, results, tag_calls,
                  tag_raised, size_checked, durations >>
  /\ UNCHANGED othervars

\* ---- lines 155-167: one ydl.download call of Song.fetch ----
Download(outcome, sz) ==
  /\ pc = "fetch"
  /\ attempt < RETRY_ATTEMPTS
  /\ attempt_log' = Append(attempt_log, outcome)
  /\ download_calls' = download_calls + 1
  /\ IF outcome = "raise"
       THEN \* except Exception: report, next attempt; after the loop return False
            /\ attempt' = attempt + 1
            /\ file_size' = file_size
            /\ IF attempt + 1 < RETRY_ATTEMPTS
                 THEN /\ pc' = "fetch"
                      /\ UNCHANGED << fetch_result, results >>
                 ELSE /\ pc' = "fetched"
                      /\ fetch_result' = FALSE
                      /\ results' = [results EXCEPT ![song] = "failure"]
       ELSE \* the call returned: result is dropped, return True
            /\ attempt' = attempt
            /\ file_size' = IF outcome = "ok"
                              THEN [file_size EXCEPT ![song] = sz]
                              ELSE file_size
            /\ pc' = "fetched"
            /\ fetch_result' = TRUE
            /\ results' = [results EXCEPT ![song] = "success"]
  /\ UNCHANGED << config, runs, loopvars, buckets, stats, summary, fetch_order,
                  tag_calls, tag_raised, size_checked, durations, headers >>
  /\ UNCHANGED othervars

\* ---- lines 258-259: song.tag() returns ----
TagOk ==
  /\ pc = "fetched"
  /\ ShouldTag(fetch_result)
  /\ tag_calls' = [tag_calls EXCEPT ![song] = @ + 1]
  /\ pc' = "size"
  /\ UNCHANGED << config, file_size, runs, loopvars, attempt, fetch_result,
                  buckets, stats, summary, attempt_log, download_calls,
                  results, fetch_order, tag_raised, size_checked, durations,
                  headers >>
  /\ UNCHANGED othervars

\* ---- lines 258-259, 147-151: song.tag() raises; nothing in fetch_all catches it ----
TagRaise ==
  /\ pc = "fetched"
  /\ ShouldTag(fetch_result)
  /\ tag_calls' = [tag_calls EXCEPT ![song] = @ + 1]
  /\ tag_raised' = tag_raised \cup {song}
  /\ pc' = "raised"
  /\ UNCHANGED << config, file_size, runs, loopvars, attempt, fetch_result,
                  buckets, stats, summary, attempt_log, download_calls,
                  results, fetch_order, size_checked, durations, headers >>
  /\ UNCHANGED othervars

\* ---- lines 260-261: the else branch ----
AppendFailed ==
  /\ pc = "fetched"
  /\ ~ShouldTag(fetch_result)
  /\ fetch_songs_failed' = Append(fetch_songs_failed, song)
  /\ pc' = "size"
  /\ UNCHANGED << config, file_size, runs, loopvars, attempt, fetch_result,
                  fetch_songs_big, stats, summary, attempt_log, download_calls,
                  results, fetch_order, tag_calls, tag_raised, size_checked,
                  durations, headers >>
  /\ UNCHANGED othervars

\* ---- lines 262-263: the size check ----
SizeCheck ==
  /\ pc = "size"
  /\ fetch_songs_big' = IF IsBig(file_size[song])
                          THEN Append(fetch_songs_big, song)
                          ELSE fetch_songs_big
  /\ size_checked' = size_checked \cup {song}
  /\ pc' = "stats"
  /\ UNCHANGED << config, file_size, runs, loopvars, attempt, fetch_result,
                  fetch_songs_failed, stats, summary, attempt_log,
                  download_calls, results, fetch_order, tag_calls, tag_raised,
                  durations, headers >>
  /\ UNCHANGED othervars

\* ---- lines 265-270: timing, moving average, ETA ----
UpdateStats(d) ==
  /\ pc = "stats"
  /\ total_download_seconds' = total_download_seconds + d
  /\ average_download_seconds' =
       RoundHalfEven(total_download_seconds', 10 * CompletedCount(i, start))
  /\ eta_seconds' = average_download_seconds' * (total - real_index)
  /\ durations' = Append(durations, d)
  /\ i' = i + 1
  /\ pc' = "loop"
  /\ UNCHANGED << config, file_size, runs, start, total, real_index, song,
                  eta_display, attempt, fetch_result, buckets, summary,
                  attempt_log, download_calls, results, fetch_order, tag_calls,
                  tag_raised, size_checked, headers >>
  /\ UNCHANGED othervars

\* ---- lines 272-274, 226-238: loop exhausted, show_failed, show_big, return ----
Finish ==
  /\ pc = "loop"
  /\ ~(i < Len(Slice(songs, start)))
  /\ summary' = [failed |-> fetch_songs_failed, big |-> fetch_songs_big]
  /\ pc' = "done"
  /\ UNCHANGED << config, file_size, runs, loopvars, attempt, fetch_result,
                  buckets, stats, attempt_log, download_calls, results,
                  fetch_order, tag_calls, tag_raised, size_checked, durations,
                  headers >>
  /\ UNCHANGED othervars

\* main(), line 375: the one fetch_all call of a program run
FetchAllStart(s) ==
  /\ pc = "idle"
  /\ FetchAllEntry(s)

\* a further fetch_all call on the same SongList, after the previous one returned
FetchAllAgain(s) ==
  /\ pc = "done"
  /\ runs < MaxRuns
  /\ FetchAllEntry(s)

Next ==
  \/ \E s \in 0..Len(songs) : FetchAllStart(s)
  \/ LoopHead
  \/ \E o \in DownloadOutcomes, sz \in FileSizes : Download(o, sz)
  \/ TagOk
  \/ TagRaise
  \/ AppendFailed
  \/ SizeCheck
  \/ \E d \in Durations : UpdateStats(d)
  \/ Finish

Spec == Init /\ [][Next]_vars

\* the same SongList fetched more than once
InitRerun == Init /\ Len(songs) <= MaxRerunSongs

NextRerun ==
  \/ Next
  \/ \E s \in 0..Len(songs) : FetchAllAgain(s)

SpecRerun == InitRerun /\ [][NextRerun]_vars

(***************************************************************************)
(* Song: from_string, format_title, full_name (mpme.py:43-47, 111-142).    *)
(* A string is a sequence of one-character strings.                        *)
(***************************************************************************)
SONG_DELIM_CHAR == "~"

\* the characters lines are made of: a letter in both cases, the apostrophe,
\* white space, the delimiter and the comma from_string strips
Chars == { "s", "S", "'", " ", "~", "," }

Strings(n) == UNION { [1..k -> Chars] : k \in 0..n }

IsLetter(c) == c \in {"s", "S"}
Upper(c) == IF c = "s" THEN "S" ELSE c
Lower(c) == IF c = "S" THEN "s" ELSE c

\* str.strip(chars)
RECURSIVE LStrip(_, _)
LStrip(str, cs) ==
  IF str # << >> /\ Head(str) \in cs THEN LStrip(Tail(str), cs) ELSE str

RECURSIVE RStrip(_, _)
RStrip(str, cs) ==
  IF str # << >> /\ str[Len(str)] \in cs
    THEN RStrip(SubSeq(str, 1, Len(str) - 1), cs)
    ELSE str

PyStrip(str, cs) == RStrip(LStrip(str, cs), cs)

\* str.split(delim)
RECURSIVE PySplit(_, _)
PySplit(str, delim) ==
  IF \A k \in 1..Len(str) : str[k] # delim
    THEN << str >>
    ELSE LET k == CHOOSE j \in 1..Len(str) :
                    str[j] = delim /\ \A h \in 1..(j - 1) : str[h] # delim
         IN  << SubSeq(str, 1, k - 1) >>
               \o PySplit(SubSeq(str, k + 1, Len(str)), delim)

\* str.title(): a letter is upper-cased after a non-letter, lower-cased after a letter
PyTitle(str) ==
  [k \in 1..Len(str) |->
     IF ~IsLetter(str[k]) THEN str[k]
     ELSE IF k > 1 /\ IsLetter(str[k - 1]) THEN Lower(str[k]) ELSE Upper(str[k])]

\* TITLE_SHORT_CHARS, upper-cased, as far as Chars has them
ShortUpper == { "S" }

\* format_title, mpme.py:43-47
format_title(str) ==
  LET t == PyTitle(PyStrip(str, {" "}))
  IN  [k \in 1..Len(t) |->
         IF k > 1 /\ t[k - 1] = "'" /\ t[k] \in ShortUpper
           THEN Lower(t[k]) ELSE t[k]]

MkSong(has, yid, name, artist) ==
  [kind |-> "song", has_yid |-> has, yid |-> yid, name |-> name,
   artist |-> artist]

ParseFailure == [kind |-> "error", has_yid |-> FALSE, yid |-> << >>,
                 name |-> << >>, artist |-> << >>]

\* accepts any count above three as well, the tail going to the artist
from_string_Lenient(str) ==
  LET parts == PySplit(PyStrip(PyStrip(str, {","}), {" "}), SONG_DELIM_CHAR)
  IN  IF Len(parts) >= 3
        THEN MkSong(TRUE, parts[1], parts[2], parts[Len(parts)])
        ELSE IF Len(parts) = 2
          THEN MkSong(FALSE, << >>, parts[1], parts[2])
          ELSE ParseFailure

\* Song.from_string, mpme.py:133-142
from_string(str) ==
  LET parts == PySplit(PyStrip(PyStrip(str, {","}), {" "}), SONG_DELIM_CHAR)
  IN  IF Len(parts) = 3
        THEN MkSong(TRUE, parts[1], parts[2], parts[3])
        ELSE IF Len(parts) = 2
          THEN MkSong(FALSE, << >>, parts[1], parts[2])
          ELSE ParseFailure

\* the separator left out between title and artist
full_name_NoDelim(sng) ==
  format_title(sng.name) \o << " " >> \o format_title(sng.artist)

\* Song.full_name, mpme.py:111-115
full_name(sng) ==
  format_title(sng.name) \o << " ", SONG_DELIM_CHAR, " " >>
    \o format_title(sng.artist)

\* Song.from_string(line) called
FromString ==
  /\ song_origin = "none"
  /\ parsed' = from_string(line)
  /\ song_origin' = "from_string"
  /\ UNCHANGED line

\* Song(yid=None, name=.., artist=..) built directly
DirectSong(name, artist) ==
  /\ song_origin = "none"
  /\ line = << >>
  /\ parsed' = MkSong(FALSE, << >>, name, artist)
  /\ song_origin' = "direct"
  /\ UNCHANGED line

FetchUnused ==
  /\ TAGGING_ENABLED = TRUE
  /\ songs = << >>
  /\ file_size = [s \in SongIds |-> NoFile]
  /\ FetchRest

fetchvars == << TAGGING_ENABLED, songs, file_size, pc, runs, start, total, i,
                real_index, song, eta_display, attempt, fetch_result,
                fetch_songs_failed, fetch_songs_big, total_download_seconds,
                average_download_seconds, eta_seconds, summary, attempt_log,
                download_calls, results, fetch_order, tag_calls, tag_raised,
                size_checked, durations, headers >>

\* what the Song actions leave alone
nonsongvars == << fetchvars, backupvars, diskvars, popvars, mainvars >>

InitSong ==
  /\ FetchUnused
  /\ BackupIdle
  /\ PLATFORM = "Linux"
  /\ DiskIdle
  /\ PopulateIdle
  /\ OFFER_EXPORT_FEATURES = FALSE
  /\ MainIdle
  /\ line \in Strings(MaxLineLen)
  /\ parsed = NoSong
  /\ song_origin = "none"

NextSong ==
  \/ FromString /\ UNCHANGED nonsongvars
  \/ \E name \in Strings(1), artist \in Strings(1) :
       DirectSong(name, artist) /\ UNCHANGED nonsongvars

SpecSong == InitSong /\ [][NextSong]_vars

(***************************************************************************)
(* LocalExporter.export (mpme.py:326-329)                                  *)
(***************************************************************************)
\* sizes of the files the two directories hold when export is called
ExportFileSizes == { 5 * BytesPerMB, 50 * BytesPerMB }

\* the destination removed before the copy
CopyTree_Replace(dst, src) ==
  [n \in DOMAIN dst |-> IF n \in DOMAIN src THEN src[n] ELSE NoFile]

\* shutil.copytree(src, dst, dirs_exist_ok=True): every file of src is
\* written to dst under its name; the other files of dst stay
CopyTree(dst, src) ==
  [n \in DOMAIN dst |->
     IF n \in DOMAIN src /\ src[n] # NoFile THEN src[n] ELSE dst[n]]

\* LocalExporter.export
LocalExport ==
  /\ before_export' = [backup |-> backup_dir, download |-> file_size]
  /\ backup_exists' = TRUE
  /\ backup_dir' = CopyTree(backup_dir, file_size)
  /\ local_exports' = local_exports + 1

\* LocalExporter().export() called on its own
LocalExportCall ==
  /\ local_exports = 0
  /\ LocalExport
  /\ UNCHANGED << fetchvars, songvars, diskvars, popvars, mainvars >>

InitLocal ==
  /\ TAGGING_ENABLED = TRUE
  /\ songs = [k \in 1..MaxSongs |-> k]
  /\ file_size \in [SongIds -> ExportFileSizes \cup {NoFile}]
  /\ FetchRest
  /\ SongIdle
  /\ backup_exists \in BOOLEAN
  /\ backup_dir \in [BackupNames -> ExportFileSizes \cup {NoFile}]
  /\ ~backup_exists => backup_dir = [n \in BackupNames |-> NoFile]
  /\ local_exports = 0
  /\ before_export = NoExportYet
  /\ PLATFORM = "Linux"
  /\ DiskIdle
  /\ PopulateIdle
  /\ OFFER_EXPORT_FEATURES = FALSE
  /\ MainIdle

NextLocal == LocalExportCall

SpecLocal == InitLocal /\ [][NextLocal]_vars

(***************************************************************************)
(* Operator prompts: SongList.populate (mpme.py:179-200) and               *)
(* ExternalDiskExporter.export / find_disks (mpme.py:287-319)              *)
(***************************************************************************)
IGNORE_DISKS == { "Macintosh HD" }

\* host families: the two PLATFORM is searched for, and any other
Platforms == { "Linux", "macOS", "Windows" }

\* what os.listdir("/dev") and os.listdir(MAC_VOLUMES_DIR) may hold
DevEntries == { "sda", "sdb1", "tty0" }
MacVolumes == { "Macintosh HD", "MYDISK", "USB" }

\* "sd" in disk
ContainsSd(name) == name \in { "sda", "sdb1" }

\* int(choice) raises ValueError, or gives n
AnswersUpTo(lo, hi) == { NoAnswer } \cup { [ok |-> TRUE, n |-> k] : k \in lo..hi }
\* answers to "Which disk?" (at most two candidates) and to populate's menu
DiskAnswers == AnswersUpTo(0 - 2, 3)
MenuAnswers == AnswersUpTo(0 - 4, 5)

\* list(a_set): the elements in some order
Orderings(set) ==
  { f \in [1..Cardinality(set) -> set] : \A x \in set : \E k \in DOMAIN f : f[k] = x }

AllOrderings(set) == UNION { Orderings(x) : x \in SUBSET set }

\* a_list[idx] does not raise IndexError
PyIndexValid(list, idx) == idx >= 0 - Len(list) /\ idx < Len(list)

\* a_list[idx], negative idx counting from the end
PyIndex(list, idx) ==
  IF idx >= 0 THEN list[idx + 1] ELSE list[Len(list) + idx + 1]

\* the denylist not subtracted
Candidates_KeepIgnored(listing) == listing

\* available_disks - IGNORE_DISKS, mpme.py:308
Candidates(listing) == listing \ IGNORE_DISKS

\* every family but Linux taken for macOS: the else branch never raising
FindDisksFamily_NoElse(platform) ==
  IF platform = "Linux" THEN "Linux" ELSE "macOS"

\* the branch find_disks takes, mpme.py:302-307
FindDisksFamily(platform) ==
  IF platform = "Linux" THEN "Linux"
  ELSE IF platform = "macOS" THEN "macOS"
  ELSE "unsupported"

\* export() entered: find_disks() called, "Searching for disks..." printed
DiskExportBegin ==
  /\ dpc = "off"
  /\ dpc' = "loop"
  /\ UNCHANGED << PLATFORM, disk_error, poll_log, sleeps, available_disks,
                  prompts, choice, disk_name, mounts, copy_dest >>

\* one pass of the while loop up to the prompt: lines 302-314
Enumerate(listing, order) ==
  /\ dpc = "loop"
  /\ Len(poll_log) < MaxPolls
  /\ IF FindDisksFamily(PLATFORM) = "unsupported"
       THEN /\ dpc' = "raised"
            /\ disk_error' = "unsupported"
            /\ UNCHANGED << poll_log, sleeps, available_disks >>
       ELSE /\ listing \subseteq
                 (IF FindDisksFamily(PLATFORM) = "Linux"
                    THEN DevEntries ELSE MacVolumes)
            /\ LET found == IF FindDisksFamily(PLATFORM) = "Linux"
                              THEN { d \in listing : ContainsSd(d) }
                              ELSE listing
               IN  /\ order \in Orderings(Candidates(found))
                   /\ available_disks' = order
            /\ poll_log' = Append(poll_log, listing)
            /\ disk_error' = disk_error
            /\ IF available_disks' = << >>
                 THEN /\ sleeps' = sleeps + 1
                      /\ dpc' = "loop"
                 ELSE /\ sleeps' = sleeps
                      /\ dpc' = "prompt"
  /\ UNCHANGED << PLATFORM, prompts, choice, disk_name, mounts, copy_dest >>

\* lines 315-319: the answer to "Which disk?"
ChooseDisk(answer) ==
  /\ dpc = "prompt"
  /\ prompts' = prompts + 1
  /\ choice' = answer
  /\ IF answer.ok /\ PyIndexValid(available_disks, answer.n - 1)
       THEN /\ disk_name' = PyIndex(available_disks, answer.n - 1)
            /\ dpc' = "found"
       ELSE \* ValueError or IndexError: pass, next pass of the loop
            /\ disk_name' = disk_name
            /\ dpc' = "loop"
  /\ UNCHANGED << PLATFORM, disk_error, poll_log, sleeps, available_disks,
                  mounts, copy_dest >>

\* export, lines 289-295: the destination path
ResolvePath(mount_ok) ==
  /\ dpc = "found"
  /\ IF PLATFORM = "Linux"
       THEN /\ mounts' = mounts + 1
            /\ IF mount_ok
                 THEN dpc' = "copy" /\ disk_error' = disk_error
                 ELSE dpc' = "raised" /\ disk_error' = "mount"
       ELSE IF PLATFORM = "macOS"
         THEN /\ mounts' = mounts
              /\ dpc' = "copy"
              /\ disk_error' = disk_error
         ELSE /\ mounts' = mounts
              /\ dpc' = "raised"
              /\ disk_error' = "unsupported"
  /\ UNCHANGED << PLATFORM, poll_log, sleeps, available_disks, prompts,
                  choice, disk_name, copy_dest >>

\* export, lines 296-297: the copy
CopyToDisk ==
  /\ dpc = "copy"
  /\ copy_dest' = IF PLATFORM = "Linux"
                    THEN << "/mnt" >>
                    ELSE << "/Volumes", disk_name >>
  /\ dpc' = "exported"
  /\ UNCHANGED << PLATFORM, disk_error, poll_log, sleeps, available_disks,
                  prompts, choice, disk_name, mounts >>

\* populate's options, in menu order
ListSources == << "from file", "from json", "from URL", "manual" >>

\* how the call of a list source, and the parsing of its lines, can end
SourceOutcomes == { "lines", "ValueError", "Exception" }

\* populate, lines 190-200: one answer to "Please choose an option"
PopulateChoose(answer, outcome) ==
  /\ pop_pc = "prompt"
  /\ pop_choice' = answer
  /\ IF answer.ok /\ PyIndexValid(ListSources, answer.n - 1)
       THEN LET source == PyIndex(ListSources, answer.n - 1)
                end == IF source = "from URL" THEN "Exception" ELSE outcome
            IN  \* a ValueError of the source is caught like one of int()
                /\ pop_source' = IF end = "ValueError" THEN "" ELSE source
                /\ pop_pc' = IF end = "lines" THEN "loaded"
                              ELSE IF end = "ValueError" THEN "prompt"
                              ELSE "raised"
       ELSE \* ValueError or IndexError: pass, prompt again
            /\ pop_source' = ""
            /\ pop_pc' = "prompt"

nondiskvars == << fetchvars, songvars, backupvars, popvars, mainvars >>
nonpopvars == << fetchvars, songvars, backupvars, diskvars, mainvars >>

\* populate() with an empty list coming back, then export() to the disk
InitDisk ==
  /\ FetchUnused
  /\ SongIdle
  /\ BackupIdle
  /\ PLATFORM \in Platforms
  /\ DiskIdle
  /\ pop_pc = "prompt"
  /\ pop_choice = NoAnswer
  /\ pop_source = ""
  /\ OFFER_EXPORT_FEATURES = FALSE
  /\ MainIdle

NextDisk ==
  \/ \E a \in MenuAnswers, o \in SourceOutcomes :
       PopulateChoose(a, o) /\ UNCHANGED nonpopvars
  \/ pop_pc = "loaded" /\ DiskExportBegin /\ UNCHANGED nondiskvars
  \/ \E l \in (SUBSET DevEntries) \cup (SUBSET MacVolumes) :
       \E o \in AllOrderings(l) :
         Enumerate(l, o) /\ UNCHANGED nondiskvars
  \/ \E a \in DiskAnswers : ChooseDisk(a) /\ UNCHANGED nondiskvars
  \/ \E ok \in BOOLEAN : ResolvePath(ok) /\ UNCHANGED nondiskvars
  \/ CopyToDisk /\ UNCHANGED nondiskvars

SpecDisk == InitDisk /\ [][NextDisk]_vars

(***************************************************************************)
(* main and offer_exports (mpme.py:340-352, 369-379)                       *)
(***************************************************************************)
\* the name attributes of EXPORTERS, in its order
EXPORTERS == << "MP3 Player (external disk)", "Local (backup)", "Google Drive" >>

\* the for loop of offer_exports moves on, or ends and main prints "Finished"
Advance ==
  /\ exporter' = exporter + 1
  /\ main_pc' = IF exporter < Len(EXPORTERS) THEN "offer" ELSE "finished"

\* main, line 377: fetch_all has returned, offer_exports is called
OfferExportsBegin ==
  /\ main_pc = "fetch"
  /\ pc = "done"
  /\ IF OFFER_EXPORT_FEATURES
       THEN main_pc' = "offer" /\ exporter' = 1
       ELSE main_pc' = "finished" /\ exporter' = exporter
  /\ UNCHANGED << OFFER_EXPORT_FEATURES, offered, exporting, export_raised >>

\* line 350: "Export to ... [y/N]"
Offer(yes) ==
  /\ main_pc = "offer"
  /\ offered' = Append(offered, EXPORTERS[exporter])
  /\ IF yes
       THEN /\ main_pc' = "exporting"
            /\ exporting' = exporting \cup { EXPORTERS[exporter] }
            /\ exporter' = exporter
       ELSE /\ Advance
            /\ exporting' = exporting
  /\ UNCHANGED << OFFER_EXPORT_FEATURES, export_raised >>

\* line 351-352: export() returned, "Done!"
ExportReturned ==
  /\ exporting' = exporting \ { EXPORTERS[exporter] }
  /\ Advance
  /\ UNCHANGED << OFFER_EXPORT_FEATURES, offered, export_raised >>

\* line 351: export() raised; neither offer_exports nor main catches it
ExportRaised ==
  /\ exporting' = exporting \ { EXPORTERS[exporter] }
  /\ export_raised' = export_raised \cup { EXPORTERS[exporter] }
  /\ main_pc' = "crashed"
  /\ UNCHANGED << OFFER_EXPORT_FEATURES, exporter, offered >>

DiskExporting == main_pc = "exporting" /\ exporter = 1

\* ExternalDiskExporter().export() is called
MainDiskBegin ==
  /\ DiskExporting
  /\ DiskExportBegin
  /\ UNCHANGED << fetchvars, songvars, backupvars, popvars, mainvars >>

MainDiskReturned ==
  /\ DiskExporting /\ dpc = "exported"
  /\ ExportReturned
  /\ UNCHANGED << fetchvars, songvars, backupvars, popvars, diskvars >>

MainDiskRaised ==
  /\ DiskExporting /\ dpc = "raised"
  /\ ExportRaised
  /\ UNCHANGED << fetchvars, songvars, backupvars, popvars, diskvars >>

\* LocalExporter().export()
MainLocalExport ==
  /\ main_pc = "exporting" /\ exporter = 2
  /\ LocalExport
  /\ ExportReturned
  /\ UNCHANGED << fetchvars, songvars, popvars, diskvars >>

\* GoogleDriveExporter().export(), lines 336-337
MainCloudExport ==
  /\ main_pc = "exporting" /\ exporter = 3
  /\ ExportRaised
  /\ UNCHANGED << fetchvars, songvars, backupvars, popvars, diskvars >>

nonmainvars == << fetchvars, songvars, backupvars, popvars, diskvars >>

\* a whole program run after populate()
InitMain ==
  /\ TAGGING_ENABLED \in BOOLEAN
  /\ \E n \in 0..MaxMainSongs : songs = [k \in 1..n |-> k]
  /\ file_size = [s \in SongIds |-> NoFile]
  /\ FetchRest
  /\ SongIdle
  /\ BackupIdle
  /\ PLATFORM \in Platforms
  /\ DiskIdle
  /\ PopulateIdle
  /\ OFFER_EXPORT_FEATURES \in BOOLEAN
  /\ MainIdle

NextMain ==
  \/ Next
  \/ OfferExportsBegin /\ UNCHANGED nonmainvars
  \/ \E yes \in BOOLEAN : Offer(yes) /\ UNCHANGED nonmainvars
  \/ MainDiskBegin
  \/ \E l \in (SUBSET DevEntries) \cup (SUBSET MacVolumes) :
       \E o \in AllOrderings(l) :
         /\ Len(poll_log) < MaxMainPolls
         /\ Enumerate(l, o)
         /\ UNCHANGED nondiskvars
  \/ \E a \in DiskAnswers : ChooseDisk(a) /\ UNCHANGED nondiskvars
  \/ \E ok \in BOOLEAN : ResolvePath(ok) /\ UNCHANGED nondiskvars
  \/ CopyToDisk /\ UNCHANGED nondiskvars
  \/ MainDiskReturned
  \/ MainDiskRaised
  \/ MainLocalExport
  \/ MainCloudExport

SpecMain == InitMain /\ [][NextMain]_vars

(***************************************************************************)
(* Properties                                                              *)
(***************************************************************************)

\* positions are 0-based in the claims; the song at position p is song p + 1
Processed == { p \in SongIds : results[p] # "none" }
FromStart == (start + 1)..total
\* an attempt that did not succeed: the call raised or returned non-success
IsFailedAttempt(o) == o \in {"raise", "nonzero"}

\* C1: after fetch_all returns, every song at a position >= start has a
\* FetchAttempt result, and it is in the failed bucket exactly once if that
\* result was failure and not at all if it was success, with tagging on or off.
C1_FailedIffFetchFailed ==
  pc = "done" =>
    \A p \in FromStart :
      /\ results[p] # "none"
      /\ results[p] = "failure" => Count(fetch_songs_failed, p) = 1
      /\ results[p] = "success" => Count(fetch_songs_failed, p) = 0

\* C2: when Song.fetch returns, every attempt but the last failed, at most
\* RETRY_ATTEMPTS were made; it returns success exactly when the last attempt
\* succeeded, and failure exactly when RETRY_ATTEMPTS attempts all failed.
C2_AttemptCount ==
  pc = "fetched" =>
    LET n == Len(attempt_log) IN
      /\ n >= 1 /\ n <= RETRY_ATTEMPTS
      /\ \A k \in 1..(n - 1) : IsFailedAttempt(attempt_log[k])
      /\ fetch_result <=> attempt_log[n] = "ok"
      /\ ~fetch_result <=> (n = RETRY_ATTEMPTS /\ IsFailedAttempt(attempt_log[n]))

\* C3: when fetch_all has ended, every song at a position >= start was
\* fetched, whatever song before it exhausted its retries or failed tagging;
\* a song whose tagging failed is not in the failed bucket.
C3_ErrorsIsolated ==
  /\ pc \in {"done", "raised"} => \A p \in FromStart : results[p] # "none"
  /\ \A p \in tag_raised : Count(fetch_songs_failed, p) = 0

\* C4: from the start of a fetch_all invocation on, the failed bucket and the
\* oversized bucket hold only songs processed in that invocation.
C4_BucketsOfThisRun ==
  pc # "idle" =>
    /\ Range(fetch_songs_failed) \subseteq Processed
    /\ Range(fetch_songs_big) \subseteq size_checked

\* C5: every song that got a FetchAttempt result is size-checked by the time
\* fetch_all returns, and a checked song is in the oversized bucket if and only
\* if its file is larger than BIG_FILE_MB megabytes (an absent file never is).
C5_OversizedIffOverThreshold ==
  /\ pc = "done" => Processed \subseteq size_checked
  /\ \A p \in size_checked :
       p \in Range(fetch_songs_big)
         <=> (file_size[p] # NoFile /\ file_size[p] > BIG_FILE_MB * BytesPerMB)

C7_MovingAverage ==
  Len(durations) >= 1 =>
    /\ average_download_seconds
         = RoundHalfEven(Sum(durations), 10 * Len(durations))
    /\ eta_seconds
         = average_download_seconds * (Len(songs) - (start + Len(durations)))

\* a resumed run with one failed and one succeeded item of different durations
C7_Witness ==
  /\ start = 1 /\ Len(durations) = 2 /\ durations[1] # durations[2]
  /\ results[2] = "failure" /\ results[3] = "success"
  /\ average_download_seconds > 0

\* C8: song.tag() is called at most once per song, only for a song whose
\* FetchAttempt returned success, and never for one whose fetch failed.
C8_TagOnlyAfterSuccess ==
  \A p \in SongIds :
    /\ tag_calls[p] <= 1
    /\ tag_calls[p] = 1 => results[p] = "success"
    /\ results[p] = "failure" => tag_calls[p] = 0

\* a failed song left untagged, a tagged song, and a tagging failure
C8_Witness ==
  /\ pc = "raised"
  /\ \E a, b, c \in SongIds :
       /\ results[a] = "failure" /\ tag_calls[a] = 0
       /\ results[b] = "success" /\ tag_calls[b] = 1 /\ b \notin tag_raised
       /\ c \in tag_raised /\ tag_calls[c] = 1

\* C9: an attempt that raised or returned non-success is followed by another
\* attempt, or is the last of RETRY_ATTEMPTS and Song.fetch returns failure.
C9_NonSuccessRetried ==
  \A k \in 1..Len(attempt_log) :
    IsFailedAttempt(attempt_log[k]) =>
      \/ k < Len(attempt_log)
      \/ pc = "fetch"
      \/ (k = RETRY_ATTEMPTS /\ results[song] = "failure")

\* C10: fetch_all never ends by an exception, makes at most
\* RETRY_ATTEMPTS * (N - start) downloader calls, and when it returns has
\* printed exactly the failed bucket and the oversized bucket.
C10_ReturnsNormally ==
  /\ pc # "raised"
  /\ download_calls <= RETRY_ATTEMPTS * (total - start)
  /\ pc = "done" =>
       summary = [failed |-> fetch_songs_failed, big |-> fetch_songs_big]

DelimCount(str) == Cardinality({ k \in 1..Len(str) : str[k] = SONG_DELIM_CHAR })

\* C18: from_string returns Song(id, name, artist), fields in line order,
\* exactly when the line has three delimiter-separated fields, Song(no id,
\* name, artist) exactly when it has two, and raises for every other count.
C18_FromStringShapes ==
  song_origin = "from_string" =>
    LET fields == DelimCount(line) + 1
        str == PyStrip(PyStrip(line, {","}), {" "})
        sep == << SONG_DELIM_CHAR >>
    IN  /\ fields = 3 =>
             /\ parsed.kind = "song" /\ parsed.has_yid
             /\ parsed.yid \o sep \o parsed.name \o sep \o parsed.artist = str
        /\ fields = 2 =>
             /\ parsed.kind = "song" /\ ~parsed.has_yid
             /\ parsed.name \o sep \o parsed.artist = str
        /\ fields \notin {2, 3} => parsed.kind = "error"

\* a three-field line with id, name and artist all present
C18_Witness ==
  /\ song_origin = "from_string" /\ parsed.kind = "song" /\ parsed.has_yid
  /\ parsed.yid # << >> /\ parsed.name # << >> /\ parsed.artist # << >>

\* C19 (as claimed): the full_name of a Song never contains the delimiter.
C19_NoDelimInFullName ==
  parsed.kind = "song" =>
    \A k \in 1..Len(full_name(parsed)) :
      full_name(parsed)[k] # SONG_DELIM_CHAR

\* C19 (amended): the full_name of a Song built by from_string contains the
\* delimiter exactly once, the separator between title and artist, so that
\* splitting it on the delimiter gives two fields: that title and that artist.
C19_OneDelimFromString ==
  (song_origin = "from_string" /\ parsed.kind = "song") =>
    LET back == PySplit(full_name(parsed), SONG_DELIM_CHAR) IN
      /\ DelimCount(full_name(parsed)) = 1
      /\ Len(back) = 2
      /\ PyStrip(back[1], {" "}) = format_title(parsed.name)
      /\ PyStrip(back[2], {" "}) = format_title(parsed.artist)

\* a parsed two-field line whose title has a possessive
C19_Witness ==
  /\ song_origin = "from_string" /\ parsed.kind = "song" /\ ~parsed.has_yid
  /\ format_title(parsed.name) = << "S", "'", "s" >>
  /\ parsed.artist # << >>

\* C17: the header of the first item of a run, printed before any item of the
\* run has completed, shows "eta N/A", whatever the start offset.
C17_FirstEtaNotAvailable ==
  /\ Len(headers) >= 1 => headers[1].eta = << "eta N/A" >>
  /\ (pc \in {"fetch", "fetched", "size", "stats"} /\ durations = << >>)
       => eta_display = << "eta N/A" >>

\* a resumed run whose first header is N/A and whose second is a time
C17_Witness ==
  /\ start = 1 /\ Len(headers) = 2
  /\ headers[1].eta = << "eta N/A" >>
  /\ headers[2].eta # << "eta N/A" >>

\* C20: every header after the first of a run shows a numeric ETA, also when
\* the rounded average is 0; eta_seconds is never negative and is 0 once
\* fetch_all has returned.
C20_EtaNumericOnceKnown ==
  /\ \A k \in 2..Len(headers) : headers[k].eta # << "eta N/A" >>
  /\ eta_seconds >= 0
  /\ pc = "done" => eta_seconds = 0

\* C15: after LocalExporter.export the backup directory exists, holds every
\* file of the download directory, still holds unchanged every file it had
\* whose name is not in the download directory, and the download directory
\* is as it was.
C15_LocalExportMerges ==
  local_exports >= 1 =>
    /\ backup_exists
    /\ \A n \in SongIds :
         file_size[n] # NoFile => backup_dir[n] = file_size[n]
    /\ \A n \in BackupNames :
         (n \notin SongIds \/ file_size[n] = NoFile)
           => backup_dir[n] = before_export.backup[n]
    /\ file_size = before_export.download

\* a backup that kept a file of its own, kept a file whose song was not
\* downloaded, and took a new version of a file it already had
C15_Witness ==
  /\ local_exports = 1
  /\ before_export.backup[0] # NoFile /\ backup_dir[0] = before_export.backup[0]
  /\ file_size[1] = NoFile /\ backup_dir[1] # NoFile
  /\ file_size[2] # NoFile /\ before_export.backup[2] # NoFile
  /\ before_export.backup[2] # file_size[2]

\* the names of a listing that find_disks looks at on this host
Visible(listing) ==
  IF PLATFORM = "Linux" THEN { d \in listing : ContainsSd(d) } ELSE listing

EmptyPolls ==
  { k \in 1..Len(poll_log) : Visible(poll_log[k]) \ {"Macintosh HD"} = {} }

\* C11: find_disks never shows or returns a denylisted volume; a listing
\* with nothing outside the denylist is followed by a wait and another
\* listing, never by a prompt or a return; the candidates shown and the name
\* returned are names of the latest listing outside the denylist.
C11_DiskDiscovery ==
  /\ "Macintosh HD" \notin Range(available_disks)
  /\ disk_name # "Macintosh HD"
  /\ sleeps = Cardinality(EmptyPolls)
  /\ prompts + (IF dpc = "prompt" THEN 1 ELSE 0)
       = Len(poll_log) - Cardinality(EmptyPolls)
  /\ dpc = "prompt" =>
       /\ Len(poll_log) \notin EmptyPolls
       /\ Range(available_disks)
            = Visible(poll_log[Len(poll_log)]) \ {"Macintosh HD"}
  /\ disk_name # "" =>
       /\ Len(poll_log) \notin EmptyPolls
       /\ disk_name \in Visible(poll_log[Len(poll_log)]) \ {"Macintosh HD"}

\* the listings {"Macintosh HD"} then {"Macintosh HD", "MYDISK"}
C11_Witness ==
  /\ PLATFORM = "macOS"
  /\ poll_log = << {"Macintosh HD"}, {"Macintosh HD", "MYDISK"} >>
  /\ sleeps = 1 /\ prompts = 1
  /\ available_disks = << "MYDISK" >>
  /\ disk_name = "MYDISK"

\* C12: a disk or a list source is selected only by an answer that is an
\* integer in 1..n, and it is then the candidate shown with that number.
C12_InvalidSelectsNothing ==
  /\ disk_name # "" =>
       /\ choice.ok /\ choice.n \in 1..Len(available_disks)
       /\ disk_name = available_disks[choice.n]
  /\ pop_source # "" =>
       /\ pop_choice.ok /\ pop_choice.n \in 1..Len(ListSources)
       /\ pop_source = ListSources[pop_choice.n]

\* C14: on a host family other than the two supported ones export ends with
\* the unsupported-platform error with no listing taken, no prompt, no mount
\* and no copy; on Linux the copy goes to the mount directory and only after
\* a mount command that succeeded; on macOS no mount command is issued.
C14_UnsupportedFailsFast ==
  /\ PLATFORM \notin {"Linux", "macOS"} =>
       /\ poll_log = << >> /\ sleeps = 0 /\ prompts = 0 /\ disk_name = ""
       /\ mounts = 0 /\ copy_dest = NoPath
       /\ dpc \in {"off", "loop", "raised"}
       /\ dpc = "raised" => disk_error = "unsupported"
  /\ PLATFORM = "Linux" =>
       /\ dpc \in {"copy", "exported"} => (mounts = 1 /\ disk_error = "none")
       /\ copy_dest # NoPath => (copy_dest = << "/mnt" >> /\ mounts = 1)
  /\ PLATFORM = "macOS" => mounts = 0

\* export on an unsupported host, ended by the error
C14_Witness ==
  /\ PLATFORM = "Windows" /\ dpc = "raised" /\ disk_error = "unsupported"

\* C13: when the RemovableDisk export fails with the unsupported-platform
\* error, or the Cloud export fails with its not-implemented error, the
\* failure stays with that sink: the run does not abort, and once it has ended
\* every sink after the failed one has been offered.
C13_SinkFailureIsolated ==
  (\/ /\ EXPORTERS[1] \in export_raised
      /\ disk_error = "unsupported"
   \/ EXPORTERS[3] \in export_raised)
    => /\ main_pc # "crashed"
       /\ main_pc = "finished" => offered = EXPORTERS

\* C16: with the export features enabled, the sinks are offered one at a time
\* in the fixed order RemovableDisk, LocalBackup, Cloud, only after fetch_all
\* has finished, at most one sink is exporting at any time, and a run that
\* has ended after fetch_all has offered every sink.
C16_EverySinkOfferedInOrder ==
  /\ offered = SubSeq(EXPORTERS, 1, Len(offered))
  /\ offered # << >> => pc = "done"
  /\ Cardinality(exporting) <= 1
  /\ exporting # {} => /\ offered # << >>
                       /\ exporting = { offered[Len(offered)] }
  /\ (OFFER_EXPORT_FEATURES /\ pc = "done" /\ main_pc \in {"finished", "crashed"})
       => offered = EXPORTERS

====
